---- MODULE Spec2Model ----
(***************************************************************************)
(* The CryoSIM action-table planner (cockpit/experiment/cryosim.py) and    *)
(* the stage-axis motion-time oracle (cockpit/devices/microscopeDevice.py).*)
(*                                                                         *)
(* Time is a whole number of milliseconds and a position a whole number of *)
(* scaled position units: one unit is the 1e-6 of the planner's near-zero  *)
(* height test, so ZThreshold is 1.  The plans enumerated keep every       *)
(* division of the oracle exact.                                           *)
(*                                                                         *)
(* The action table, the readiness query and the reset procedure belong to *)
(* the experiment base classes, which generateActions calls; they are      *)
(* modelled from the specification (sections 4.3 and 4.4).                 *)
(***************************************************************************)
EXTENDS Integers, Sequences, FiniteSets

\* ------------------------------------------------------------------ bounds
\* Largest number of cameras of a plan.
MaxCams == 2
\* Largest numAngles of a plan (numPhases ranges over Phases).
MaxAngles == 2
\* Largest zHeight of a plan, in scaled position units.
MaxZHeight == 3

\* ------------------------------------------------------- program constants
\* decimal.Decimal("5"): the wait after every exposure, in ms.
InterTriggerDelay == 5
\* The 1e-6 of `if self.zHeight > 1e-6`, in scaled position units.
ZThreshold == 1
\* self.config.get("settlingtime", 10)
DefaultSettlingTime == 10
\* self.config.get("velocity", 1000)
DefaultVelocity == 1000
\* The margin by which the reset moves the cursor past the reset duration.
ResetMargin == 1

\* ------------------------------------------------------------ plain helpers
Max(a, b) == IF a < b THEN b ELSE a

Abs(x) == IF x < 0 THEN -x ELSE x

\* Python's max(0, f(x) for x in S) over a finite set of non-negative values.
MaxOf(S) == IF S = {} THEN 0 ELSE CHOOSE m \in S : \A x \in S : x <= m

\* int(np.ceil(a / b)) for a >= 0 and b > 0.
CeilDiv(a, b) == (a + b - 1) \div b

\* ------------------------------------------------------------------- plans
\* (exposure time, time between exposures, ready flag) of a camera.
CamKinds ==
    { [exposure |-> 50, gap |-> 10, ready |-> TRUE],
      [exposure |-> 2, gap |-> 1, ready |-> FALSE] }

CameraLists == UNION { [1..n -> CamKinds] : n \in 0..MaxCams }

\* The lights and the two executor handlers with their analog clients.
Rigs ==
    { [lights |-> 1, slm |-> [present |-> FALSE, clients |-> 0],
                     rotor |-> [present |-> TRUE, clients |-> 0]],
      [lights |-> 2, slm |-> [present |-> TRUE, clients |-> 1],
                     rotor |-> [present |-> TRUE, clients |-> 2]] }

Phases == {1, 2}

\* The stage axis: its configuration (a partial mapping) and the velocity the
\* device reports, when it reports one.
Stages ==
    { [config |-> [settlingtime |-> 1, velocity |-> 1], axisVelocity |-> <<>>],
      [config |-> [velocity |-> 1], axisVelocity |-> <<>>],
      [config |-> [settlingtime |-> 0, velocity |-> 1000], axisVelocity |-> <<2>>] }

SliceHeights == {1, 2}

ZStarts == {0, 1}

Reps == {1, 2}

\* The velocity getMovementTime divides by.
Velocity(stage) ==
    IF Len(stage.axisVelocity) > 0
    THEN stage.axisVelocity[1]
    ELSE IF "velocity" \in DOMAIN stage.config
         THEN stage.config.velocity
         ELSE DefaultVelocity

\* The plans of the model: every combination whose movement times are whole.
Plans ==
    { p \in [ cams : CameraLists, rig : Rigs, numAngles : 0..MaxAngles,
              numPhases : Phases, zStart : ZStarts, zHeight : 0..MaxZHeight,
              sliceHeight : SliceHeights, stage : Stages, numReps : Reps ] :
        /\ p.sliceHeight % Velocity(p.stage) = 0
        /\ p.zHeight % Velocity(p.stage) = 0 }

\* --------------------------------------------------------------- the state
VARIABLES
    plan,                \* the experiment plan and the oracle's answers
    sequence,            \* self.sequence
    initNumZSlices,      \* self.numZSlices
    cameraToIsReady,     \* self.cameraToIsReady
    cameraToImageCount,  \* self.cameraToImageCount
    table,               \* the ActionTable of the running generateActions
    curTime,             \* curTime
    hasPrevAltitude,     \* prevAltitude is not None
    prevAltitude,        \* prevAltitude
    numZSlices,          \* numZSlices (the local of generateActions)
    zIndex,              \* zIndex
    stepIndex,           \* i
    pc,                  \* the position in generateActions
    error,               \* the error that ended the call, "" when none
    run,                 \* 1 for the first call of generateActions, 2 for the second
    firstTable,          \* the table the first call returned
    zLog,                \* history: one record per iteration of the Z loop of this call
    exposeLog,           \* history: one record per call of expose of this call
    query,               \* the stage axis asked and the arguments of the call
    answer,              \* what getMovementTime answered to the query
    stageDev,            \* a MicroscopeStage and the device behind its proxy
    baseDev,             \* a MicroscopeBase, its controller and its user config
    modDev,              \* a MicroscopeModulator and the clock it reads
    laserDev             \* a MicroscopeLaser and the threads of _setPower

vars == << plan, sequence, initNumZSlices, cameraToIsReady, cameraToImageCount,
           table, curTime, hasPrevAltitude, prevAltitude, numZSlices, zIndex,
           stepIndex, pc, error, run, firstTable, zLog, exposeLog, query,
           answer, stageDev, baseDev, modDev, laserDev >>

\* The devices of microscopeDevice.py, which the planner never touches.
deviceVars == << stageDev, baseDev, modDev, laserDev >>

\* ------------------------------------------------------------- the targets
ZPositioner == << "z", 0 >>

Camera(k) == << "camera", k >>

Light(k) == << "light", k >>

SlmClient(k) == << "slm", k >>

RotorClient(k) == << "rotor", k >>

Cameras == 1..Len(plan.cams)

\* ---------------------------------------------------------- the action table
Entry(t, target, kind, value) ==
    [time |-> t, target |-> target, kind |-> kind, value |-> value]

\* The positions of the entries of tbl that target `target`.
EntriesOf(tbl, target) == { n \in 1..Len(tbl) : tbl[n].target = target }

\* append: OutOfOrder when the timestamp is below that of the last entry of the
\* same target.
OutOfOrder(tbl, e) ==
    LET S == EntriesOf(tbl, e.target)
    IN  S # {} /\ e.time < tbl[MaxOf(S)].time

\* Whether appending the entries new to tbl, one by one, meets an OutOfOrder.
RECURSIVE Rejects(_, _)
Rejects(tbl, new) ==
    IF new = << >> THEN FALSE
    ELSE OutOfOrder(tbl, Head(new)) \/ Rejects(Append(tbl, Head(new)), Tail(new))

\* The entries of new that are appended to tbl, one by one, before the first
\* OutOfOrder: all of new when no append is rejected.
RECURSIVE Accepted(_, _)
Accepted(tbl, new) ==
    IF new = << >> \/ OutOfOrder(tbl, Head(new)) THEN << >>
    ELSE << Head(new) >> \o Accepted(Append(tbl, Head(new)), Tail(new))

\* ------------------------------------------------------------- the oracles
\* a / b for a whole quotient and a divisor of either sign.
Div(a, b) == IF b > 0 THEN a \div b ELSE -(a \div (-b))

getExposureTime(k) == plan.cams[k].exposure

getTimeBetweenExposures(k) == plan.cams[k].gap

\* _MicroscopeStageAxis.getMovementTime
getMovementTime(stage, start, end) ==
    LET dt  == IF "settlingtime" \in DOMAIN stage.config
               THEN stage.config.settlingtime
               ELSE DefaultSettlingTime
        vel == Velocity(stage)
    IN  << Div(Abs(end - start), vel), dt >>

\* earliest_available: the last entry of the camera plus its exposure time and
\* its time between exposures; 0 without a prior entry.
getTimeWhenCameraCanExpose(tbl, k) ==
    LET S == EntriesOf(tbl, Camera(k))
    IN  IF S = {} THEN 0
        ELSE tbl[MaxOf(S)].time + getExposureTime(k) + getTimeBetweenExposures(k)

\* ------------------------------------------------------- CryoSIM.__init__
\* self.sequence: one (angle, phase) pair per step; generateActions reads only
\* its length, so a pair is kept as its two loop indices.
MakeSequence(numAngles, numPhases) ==
    [ n \in 1..(numAngles * numPhases) |->
        << (n - 1) \div numPhases, (n - 1) % numPhases >> ]

\* self.numZSlices
InitNumZSlices(zHeight, sliceHeight) ==
    CeilDiv(zHeight, sliceHeight) + (IF zHeight > ZThreshold THEN 1 ELSE 0)

\* ------------------------------------------------ CryoSIM.generateActions
\* Mutant: the extra slice is added from the threshold on (>= for >).
GenNumZSlicesFromThreshold(zHeight, sliceHeight) ==
    CeilDiv(zHeight, sliceHeight) + (IF zHeight >= ZThreshold THEN 1 ELSE 0)

\* numZSlices, the local of generateActions
GenNumZSlices(zHeight, sliceHeight) ==
    CeilDiv(zHeight, sliceHeight) + (IF zHeight > ZThreshold THEN 1 ELSE 0)

\* Mutant: the test of the ready flag is inverted.
CamsToResetReady == { k \in Cameras : cameraToIsReady[k] }

\* camsToReset
CamsToReset == { k \in Cameras : ~cameraToIsReady[k] }

\* The members of a set of cameras as a list, in the order they are visited.
RECURSIVE InOrder(_)
InOrder(S) ==
    IF S = {} THEN << >>
    ELSE LET k == CHOOSE x \in S : \A y \in S : x <= y
         IN  << k >> \o InOrder(S \ {k})

\* resetCams: a reset entry per camera at the cursor; the cursor returned is past
\* the time at which every reset camera can expose again.  The specification
\* states no change of the ready flags, so the flags are left as they are.
resetCams(cur, cams, tbl) ==
    LET order == InOrder(cams)
        new   == [ n \in 1..Len(order) |-> Entry(cur, Camera(order[n]), "reset", 0) ]
        tbl2  == tbl \o new
        ends  == { getTimeWhenCameraCanExpose(tbl2, k) : k \in cams }
    IN  [ new |-> new, end |-> Max(cur, MaxOf(ends)) + ResetMargin ]

\* Mutant: the clients are sent the number of the step, counted from 1.
PatternEntriesFromOne(cur, i) ==
    LET slm   == IF plan.rig.slm.present /\ plan.rig.slm.clients > 0
                 THEN [ k \in 1..plan.rig.slm.clients |->
                          Entry(cur, SlmClient(k), "analog", i + 1) ]
                 ELSE << >>
        rotor == IF plan.rig.rotor.present /\ plan.rig.rotor.clients > 0
                 THEN [ k \in 1..plan.rig.rotor.clients |->
                          Entry(cur, RotorClient(k), "analog", i + 1) ]
                 ELSE << >>
    IN  slm \o rotor

\* The analog entries of step i: the slm handler's clients, then the rotor's.
PatternEntries(cur, i) ==
    LET slm   == IF plan.rig.slm.present /\ plan.rig.slm.clients > 0
                 THEN [ k \in 1..plan.rig.slm.clients |->
                          Entry(cur, SlmClient(k), "analog", i) ]
                 ELSE << >>
        rotor == IF plan.rig.rotor.present /\ plan.rig.rotor.clients > 0
                 THEN [ k \in 1..plan.rig.rotor.clients |->
                          Entry(cur, RotorClient(k), "analog", i) ]
                 ELSE << >>
    IN  slm \o rotor

\* Sum(f, S) for the acquisition times of a set of cameras.
RECURSIVE SumAcq(_)
SumAcq(cams) ==
    IF cams = {} THEN 0
    ELSE LET k == CHOOSE x \in cams : TRUE
         IN  getExposureTime(k) + getTimeBetweenExposures(k) + SumAcq(cams \ {k})

\* Mutant: the acquisition time leaves out the time between exposures.
MaxAcqTimeExposureOnly(cams) == MaxOf({ getExposureTime(k) : k \in cams })

\* Mutant: the acquisition times of the cameras are added up.
MaxAcqTimeSum(cams) == SumAcq(cams)

\* Mutant: max_acq_time is overwritten by every camera, so the last one wins.
MaxAcqTimeLast(cams) ==
    IF cams = {} THEN 0
    ELSE LET k == CHOOSE x \in cams : \A y \in cams : y <= x
         IN  getExposureTime(k) + getTimeBetweenExposures(k)

\* max_acq_time of expose
MaxAcqTime(cams) ==
    MaxOf({ getExposureTime(k) + getTimeBetweenExposures(k) : k \in cams })

\* last_ready of expose
LastReady(cams, tbl) ==
    MaxOf({ getTimeWhenCameraCanExpose(tbl, k) : k \in cams })

\* Mutant: the cameras are triggered before the lights are switched.
exposeCamerasFirst(cur, cams, tbl) ==
    LET order  == InOrder(cams)
        lights == [ k \in 1..plan.rig.lights |-> Entry(cur, Light(k), "digital", 1) ]
        trig   == [ n \in 1..Len(order) |-> Entry(cur, Camera(order[n]), "digital", 1) ]
    IN  [ new |-> trig \o lights,
          end |-> Max(LastReady(cams, tbl), cur + MaxAcqTime(cams)) ]

\* Mutant: the cursor is not advanced by the acquisition time.
exposeKeepsCursor(cur, cams, tbl) ==
    LET order  == InOrder(cams)
        lights == [ k \in 1..plan.rig.lights |-> Entry(cur, Light(k), "digital", 1) ]
        trig   == [ n \in 1..Len(order) |-> Entry(cur, Camera(order[n]), "digital", 1) ]
    IN  [ new |-> lights \o trig, end |-> Max(LastReady(cams, tbl), cur) ]

\* Mutant: the counter of a triggered camera is set to 1 (= for +=).
ImageCountsSetToOne(counts, cams) ==
    [ k \in DOMAIN counts |-> IF k \in cams THEN 1 ELSE counts[k] ]

\* self.cameraToImageCount after expose triggered the cameras cams.
ImageCountsAfterExpose(counts, cams) ==
    [ k \in DOMAIN counts |-> IF k \in cams THEN counts[k] + 1 ELSE counts[k] ]

\* CryoSIM.expose: the entries it appends (the value 1 stands for True) and the
\* time it returns.
expose(cur, cams, tbl) ==
    LET order  == InOrder(cams)
        lights == [ k \in 1..plan.rig.lights |-> Entry(cur, Light(k), "digital", 1) ]
        trig   == [ n \in 1..Len(order) |-> Entry(cur, Camera(order[n]), "digital", 1) ]
    IN  [ new |-> lights \o trig,
          end |-> Max(LastReady(cams, tbl), cur + MaxAcqTime(cams)) ]

\* ------------------------------------------- a call of getMovementTime
\* No call of getMovementTime is observed.
NoQuery == [ asked |-> FALSE ]

NoAnswer == [ state |-> "none" ]

\* No device of microscopeDevice.py is looked at.
NoDevice == [ used |-> FALSE ]

NoDevices ==
    /\ stageDev = NoDevice
    /\ baseDev = NoDevice
    /\ modDev = NoDevice
    /\ laserDev = NoDevice

\* -------------------------------------------------------------- the actions
Init ==
    /\ plan \in Plans
    /\ sequence = MakeSequence(plan.numAngles, plan.numPhases)
    /\ initNumZSlices = InitNumZSlices(plan.zHeight, plan.sliceHeight)
    /\ cameraToIsReady = [ k \in Cameras |-> plan.cams[k].ready ]
    /\ cameraToImageCount = [ k \in Cameras |-> 0 ]
    /\ table = << >>
    /\ curTime = 0
    /\ hasPrevAltitude = FALSE
    /\ prevAltitude = 0
    /\ numZSlices = 0
    /\ zIndex = 0
    /\ stepIndex = 0
    /\ pc = "start"
    /\ error = ""
    /\ run = 1
    /\ firstTable = << >>
    /\ zLog = << >>
    /\ exposeLog = << >>
    /\ query = NoQuery
    /\ answer = NoAnswer
    /\ NoDevices

\* The cameras that have a trigger of expose among the entries acc.
CamerasTriggered(acc) ==
    { k \in Cameras :
        \E n \in 1..Len(acc) :
            acc[n].target = Camera(k) /\ acc[n].kind = "digital" }

\* An append of the entries new was rejected: the entries before it are in the
\* table tbl, the cameras triggered by them are counted, and the call ends in
\* the error and returns nothing.
Abort(tbl, new) ==
    LET acc == Accepted(tbl, new)
    IN  /\ pc' = "failed"
        /\ error' = "OutOfOrder"
        /\ table' = tbl \o acc
        /\ cameraToImageCount' =
               ImageCountsAfterExpose(cameraToImageCount, CamerasTriggered(acc))
        /\ UNCHANGED << deviceVars, query, answer, plan, sequence, initNumZSlices,
                        cameraToIsReady, curTime, hasPrevAltitude,
                        prevAltitude, numZSlices, zIndex, stepIndex, run,
                        firstTable, zLog, exposeLog >>

\* generateActions up to the Z loop: the reset phase and the slice count.
StartGenerate ==
    /\ pc = "start"
    /\ LET r == IF CamsToReset # {}
                THEN resetCams(0, CamsToReset, << >>)
                ELSE [ new |-> << >>, end |-> 0 ]
           n == GenNumZSlices(plan.zHeight, plan.sliceHeight)
       IN  IF Rejects(<< >>, r.new) THEN Abort(<< >>, r.new)
           ELSE /\ table' = r.new
                /\ curTime' = r.end
                /\ hasPrevAltitude' = FALSE
                /\ numZSlices' = n
                /\ zIndex' = 0
                /\ stepIndex' = 0
                /\ pc' = IF n > 0 THEN "move" ELSE "return"
                /\ zLog' = << >>
                /\ exposeLog' = << >>
                /\ UNCHANGED << deviceVars, query, answer, plan, sequence, initNumZSlices, cameraToIsReady,
                                cameraToImageCount, prevAltitude, error, run,
                                firstTable >>

\* Mutant: the Z move entry is put at the cursor before the move time is added.
MoveEntryTimeAtStart(cur, mt) == cur

\* The timestamp of a Z move entry: curTime after `curTime += motionTime`.
MoveEntryTime(cur, mt) == cur + mt[1]

\* Mutant: the cursor is advanced by the stabilization time alone.
CursorAfterMoveSettleOnly(cur, mt) == cur + mt[2]

\* curTime after the move and `curTime += stabilizationTime`.
CursorAfterMove(cur, mt) == cur + mt[1] + mt[2]

\* Mutant: without previous altitude the move is timed as one from altitude 0.
SliceMovementTimeFromZero(hasPrev, prev, zTarget) ==
    getMovementTime(plan.stage, IF hasPrev THEN prev ELSE 0, zTarget)

\* motionTime, stabilizationTime of a slice: 0, 0 unless a previous altitude
\* exists, and then what the Z positioner answers for the move from it.
SliceMovementTime(hasPrev, prev, zTarget) ==
    IF hasPrev
    THEN getMovementTime(plan.stage, prev, zTarget)
    ELSE << 0, 0 >>

\* The head of one iteration of the Z loop: the move to zTarget and the wait
\* for the stage to stabilize.
MoveToSlice ==
    /\ pc = "move"
    /\ LET zTarget == plan.zStart + plan.sliceHeight * zIndex
           mt  == SliceMovementTime(hasPrevAltitude, prevAltitude, zTarget)
           new == << Entry(MoveEntryTime(curTime, mt), ZPositioner, "move", zTarget) >>
       IN  IF Rejects(table, new) THEN Abort(table, new)
           ELSE /\ table' = table \o new
                /\ curTime' = CursorAfterMove(curTime, mt)
                /\ hasPrevAltitude' = TRUE
                /\ prevAltitude' = zTarget
                /\ stepIndex' = 0
                /\ pc' = IF Len(sequence) > 0 THEN "step" ELSE "hold"
                /\ zLog' = Append(zLog, [ zIndex |-> zIndex, target |-> zTarget,
                                          queried |-> hasPrevAltitude,
                                          cursor |-> curTime, motionTime |-> mt[1],
                                          stabilizationTime |-> mt[2],
                                          entry |-> Len(table) + 1 ])
                /\ UNCHANGED << deviceVars, query, answer, plan, sequence, initNumZSlices, cameraToIsReady,
                                cameraToImageCount, numZSlices, zIndex, error, run,
                                firstTable, exposeLog >>

\* One iteration of the step loop: the pattern entries of step i, expose, and
\* the wait of 5 ms.
Step ==
    /\ pc = "step"
    /\ LET pat  == PatternEntries(curTime, stepIndex)
           ex   == expose(curTime, Cameras, table \o pat)
           new  == pat \o ex.new
       IN  IF Rejects(table, new) THEN Abort(table, new)
           ELSE /\ table' = table \o new
                /\ cameraToImageCount' =
                       ImageCountsAfterExpose(cameraToImageCount, Cameras)
                /\ curTime' = ex.end + InterTriggerDelay
                /\ stepIndex' = stepIndex + 1
                /\ pc' = IF stepIndex + 1 < Len(sequence) THEN "step" ELSE "hold"
                /\ exposeLog' =
                       Append(exposeLog,
                              [ zIndex |-> zIndex, step |-> stepIndex,
                                cursor |-> curTime,
                                ready |-> [ k \in Cameras |->
                                    getTimeWhenCameraCanExpose(table \o pat, k) ],
                                first |-> Len(table) + 1,
                                firstExposed |-> Len(table) + Len(pat) + 1,
                                end |-> ex.end ])
                /\ UNCHANGED << deviceVars, query, answer, plan, sequence, initNumZSlices, cameraToIsReady,
                                hasPrevAltitude, prevAltitude, numZSlices, zIndex,
                                error, run, firstTable, zLog >>

\* Mutant: no second entry for an altitude the Z positioner was already sent to.
HoldEntriesDeduplicated(cur, zTarget) == << >>

\* The entry that holds the Z positioner at zTarget after the last step.
HoldEntries(cur, zTarget) == << Entry(cur, ZPositioner, "move", zTarget) >>

\* The tail of one iteration of the Z loop: the hold at zTarget.
HoldSlice ==
    /\ pc = "hold"
    /\ LET zTarget == plan.zStart + plan.sliceHeight * zIndex
           new == HoldEntries(curTime, zTarget)
       IN  IF Rejects(table, new) THEN Abort(table, new)
           ELSE /\ table' = table \o new
                /\ zIndex' = zIndex + 1
                /\ pc' = IF zIndex + 1 < numZSlices THEN "move" ELSE "return"
                /\ UNCHANGED << deviceVars, query, answer, plan, sequence, initNumZSlices, cameraToIsReady,
                                cameraToImageCount, curTime, hasPrevAltitude,
                                prevAltitude, numZSlices, stepIndex, error, run,
                                firstTable, zLog, exposeLog >>

\* cameraReadyTime of the return phase: exposureSettings holds the cameras of
\* the experiment.
CameraReadyTime(tbl) ==
    IF plan.numReps > 1
    THEN MaxOf({ getTimeWhenCameraCanExpose(tbl, k) : k \in Cameras })
    ELSE 0

\* Mutant: the final hold does not wait for the stabilization time.
FinalHoldTimeNoSettle(cur, stabilizationTime, cameraReadyTime) ==
    Max(cur, cameraReadyTime)

\* Mutant: the final hold is put at the camera ready time alone.
FinalHoldTimeReadyOnly(cur, stabilizationTime, cameraReadyTime) ==
    cameraReadyTime

\* The timestamp of the final hold.
FinalHoldTime(cur, stabilizationTime, cameraReadyTime) ==
    Max(cur + stabilizationTime, cameraReadyTime)

\* generateActions after the Z loop: the move back to zStart, the final hold,
\* and the return of the table.
ReturnToStart ==
    /\ pc = "return"
    /\ LET mt   == getMovementTime(plan.stage, plan.zHeight, 0)
           back == Entry(MoveEntryTime(curTime, mt), ZPositioner, "move", plan.zStart)
           tbl2 == Append(table, back)
           hold == Entry(FinalHoldTime(MoveEntryTime(curTime, mt), mt[2],
                                       CameraReadyTime(tbl2)),
                         ZPositioner, "move", plan.zStart)
           new  == << back, hold >>
       IN  IF Rejects(table, new) THEN Abort(table, new)
           ELSE /\ table' = table \o new
                /\ curTime' = MoveEntryTime(curTime, mt)
                /\ pc' = "done"
                /\ UNCHANGED << deviceVars, query, answer, plan, sequence, initNumZSlices, cameraToIsReady,
                                cameraToImageCount, hasPrevAltitude, prevAltitude,
                                numZSlices, zIndex, stepIndex, error, run,
                                firstTable, zLog, exposeLog >>

\* The caller keeps the returned table and calls generateActions once more on
\* the same experiment object.
CallAgain ==
    /\ pc = "done"
    /\ run = 1
    /\ firstTable' = table
    /\ run' = 2
    /\ table' = << >>
    /\ curTime' = 0
    /\ pc' = "start"
    /\ UNCHANGED << deviceVars, query, answer, plan, sequence, initNumZSlices, cameraToIsReady,
                    cameraToImageCount, hasPrevAltitude, prevAltitude, numZSlices,
                    zIndex, stepIndex, error, zLog, exposeLog >>

\* One call of generateActions.
Next ==
    \/ StartGenerate
    \/ MoveToSlice
    \/ Step
    \/ HoldSlice
    \/ ReturnToStart

Spec == Init /\ [][Next]_vars

\* Two calls of generateActions on the same experiment object.
NextTwice ==
    \/ StartGenerate
    \/ MoveToSlice
    \/ Step
    \/ HoldSlice
    \/ ReturnToStart
    \/ CallAgain

SpecTwice == Init /\ [][NextTwice]_vars

\* ---------------------------------------------------- failing oracle queries
\* Mutant: a failed query ends the loops and the table built so far is closed
\* and returned.
OnOracleFailureClosesTable == "return"

\* generateActions and expose have no handler around their queries: the
\* exception leaves generateActions, which returns nothing.
OnOracleFailure == "failed"

\* zPositioner.getMovementTime raises, in the Z loop or in the return phase.
MovementTimeFails ==
    /\ \/ pc = "move" /\ hasPrevAltitude
       \/ pc = "return"
    /\ pc' = OnOracleFailure
    /\ error' = "UnavailableTiming"
    /\ UNCHANGED << deviceVars, query, answer, plan, sequence, initNumZSlices, cameraToIsReady,
                    cameraToImageCount, table, curTime, hasPrevAltitude,
                    prevAltitude, numZSlices, zIndex, stepIndex, run, firstTable,
                    zLog, exposeLog >>

\* A query of expose raises (getExposureTime, getTimeBetweenExposures or
\* getTimeWhenCameraCanExpose of some camera): the pattern entries of the step
\* are in the table already, no trigger is.
ExposeQueryFails ==
    /\ pc = "step"
    /\ Cameras # {}
    /\ table' = table \o PatternEntries(curTime, stepIndex)
    /\ pc' = OnOracleFailure
    /\ error' = "UnavailableTiming"
    /\ UNCHANGED << deviceVars, query, answer, plan, sequence, initNumZSlices, cameraToIsReady,
                    cameraToImageCount, curTime, hasPrevAltitude, prevAltitude,
                    numZSlices, zIndex, stepIndex, run, firstTable, zLog,
                    exposeLog >>

\* getTimeWhenCameraCanExpose raises in the return phase (it is asked only when
\* numReps > 1): the move back to zStart is in the table already.
ReadinessFails ==
    /\ pc = "return"
    /\ plan.numReps > 1
    /\ Cameras # {}
    /\ LET mt   == getMovementTime(plan.stage, plan.zHeight, 0)
           back == Entry(MoveEntryTime(curTime, mt), ZPositioner, "move", plan.zStart)
       IN  /\ ~Rejects(table, << back >>)
           /\ table' = Append(table, back)
           /\ curTime' = MoveEntryTime(curTime, mt)
    /\ pc' = OnOracleFailure
    /\ error' = "UnavailableTiming"
    /\ UNCHANGED << deviceVars, query, answer, plan, sequence, initNumZSlices, cameraToIsReady,
                    cameraToImageCount, hasPrevAltitude, prevAltitude,
                    numZSlices, zIndex, stepIndex, run, firstTable, zLog,
                    exposeLog >>

\* One call of generateActions whose oracle may fail at any query.
NextFail ==
    \/ StartGenerate
    \/ MoveToSlice
    \/ Step
    \/ HoldSlice
    \/ ReturnToStart
    \/ MovementTimeFails
    \/ ExposeQueryFails
    \/ ReadinessFails

SpecFail == Init /\ [][NextFail]_vars

\* ------------------------------- _MicroscopeStageAxis.getMovementTime, alone
\* The configurations of a stage axis: "settlingtime" and "velocity" are each
\* present or not, with values of either sign.
SettlingTimes == {0, 5, -5}

ConfigVelocities == {1000, 2, 0, -1000}

StageConfigs ==
    { [ k \in {} |-> 0 ] }
    \cup { [settlingtime |-> s] : s \in SettlingTimes }
    \cup { [velocity |-> v] : v \in ConfigVelocities }
    \cup { [settlingtime |-> s, velocity |-> v] :
             s \in SettlingTimes, v \in ConfigVelocities }

\* The device axis has a velocity attribute or has none.
AxisVelocities == { << >>, << 500 >> }

Positions == {0, 1000, 3000}

\* The stage axes asked: malformed holds the keys of the configuration whose
\* value is text that float() does not take for a number; the number the
\* configuration keeps under such a key is never read.
QueryStages ==
    { st \in [ config : StageConfigs, axisVelocity : AxisVelocities,
               malformed : SUBSET { "settlingtime", "velocity" } ] :
        st.malformed \subseteq DOMAIN st.config }

Queries ==
    [ asked : {TRUE},
      stage : QueryStages,
      start : Positions,
      end   : Positions ]

\* The outcome of a call of getMovementTime: float() raises for a configured
\* settling time or velocity that is no number, also when the axis reports a
\* velocity, and the division raises for a velocity of 0.
CallMovementTime(stage, start, end) ==
    IF stage.malformed # {}
    THEN [ state |-> "raised", error |-> "ValueError" ]
    ELSE IF Velocity(stage) = 0
    THEN [ state |-> "raised", error |-> "ZeroDivisionError" ]
    ELSE [ state |-> "returned", value |-> getMovementTime(stage, start, end) ]

\* A stage axis is asked one movement time; no experiment is planned.
InitOracle ==
    /\ plan = [ cams |-> << >>, rig |-> CHOOSE r \in Rigs : r.lights = 1,
                numAngles |-> 0, numPhases |-> 1, zStart |-> 0, zHeight |-> 0,
                sliceHeight |-> 1, stage |-> CHOOSE x \in Stages : TRUE,
                numReps |-> 1 ]
    /\ sequence = << >>
    /\ initNumZSlices = 0
    /\ cameraToIsReady = << >>
    /\ cameraToImageCount = << >>
    /\ table = << >>
    /\ curTime = 0
    /\ hasPrevAltitude = FALSE
    /\ prevAltitude = 0
    /\ numZSlices = 0
    /\ zIndex = 0
    /\ stepIndex = 0
    /\ pc = "idle"
    /\ error = ""
    /\ run = 1
    /\ firstTable = << >>
    /\ zLog = << >>
    /\ exposeLog = << >>
    /\ query \in Queries
    /\ answer = NoAnswer
    /\ NoDevices

\* The call: it reads the configuration and the axis and writes nothing.
AskMovementTime ==
    /\ query.asked
    /\ answer = NoAnswer
    /\ answer' = CallMovementTime(query.stage, query.start, query.end)
    /\ UNCHANGED << deviceVars, query, plan, sequence, initNumZSlices, cameraToIsReady,
                    cameraToImageCount, table, curTime, hasPrevAltitude,
                    prevAltitude, numZSlices, zIndex, stepIndex, pc, error, run,
                    firstTable, zLog, exposeLog >>

NextOracle == AskMovementTime

SpecOracle == InitOracle /\ [][NextOracle]_vars

\* ------------------------------------------------------ CryoSIM.expose, alone
\* The time of the trigger a camera has in the table before the call; -1 for a
\* camera without one.
PriorTimes == {-1, 0, 20}

\* The cursor expose is called with.
Cursors == {0, 20, 30, 100}

\* The triggers of the cameras whose prior trigger is at time t.
PriorAt(f, t) ==
    LET order == InOrder({ k \in DOMAIN f : f[k] = t })
    IN  [ n \in 1..Len(order) |-> Entry(t, Camera(order[n]), "digital", 1) ]

\* The table before the call, for the prior trigger times f of the cameras.
PriorTable(f) == PriorAt(f, 0) \o PriorAt(f, 20)

\* expose is called once, on a table that holds earlier triggers.
InitExpose ==
    /\ plan \in { p \in Plans : /\ p.numAngles = 1 /\ p.numPhases = 1
                                /\ p.zStart = 0 /\ p.zHeight = 0
                                /\ p.sliceHeight = 1 /\ p.numReps = 1
                                /\ Velocity(p.stage) = 1
                                /\ "settlingtime" \in DOMAIN p.stage.config }
    /\ sequence = MakeSequence(plan.numAngles, plan.numPhases)
    /\ initNumZSlices = InitNumZSlices(plan.zHeight, plan.sliceHeight)
    /\ cameraToIsReady = [ k \in Cameras |-> plan.cams[k].ready ]
    /\ \E f \in [ Cameras -> PriorTimes ] :
          /\ table = PriorTable(f)
          /\ cameraToImageCount = [ k \in Cameras |-> IF f[k] >= 0 THEN 1 ELSE 0 ]
    /\ curTime \in Cursors
    /\ hasPrevAltitude = FALSE
    /\ prevAltitude = 0
    /\ numZSlices = 0
    /\ zIndex = 0
    /\ stepIndex = 0
    /\ pc = "expose"
    /\ error = ""
    /\ run = 1
    /\ firstTable = << >>
    /\ zLog = << >>
    /\ exposeLog = << >>
    /\ query = NoQuery
    /\ answer = NoAnswer
    /\ NoDevices

\* The call expose(curTime, self.cameras, table).
Expose ==
    /\ pc = "expose"
    /\ LET ex == expose(curTime, Cameras, table)
       IN  IF Rejects(table, ex.new) THEN Abort(table, ex.new)
           ELSE /\ table' = table \o ex.new
                /\ cameraToImageCount' =
                       ImageCountsAfterExpose(cameraToImageCount, Cameras)
                /\ curTime' = ex.end
                /\ pc' = "exposed"
                /\ exposeLog' =
                       Append(exposeLog,
                              [ zIndex |-> zIndex, step |-> stepIndex,
                                cursor |-> curTime,
                                ready |-> [ k \in Cameras |->
                                    getTimeWhenCameraCanExpose(table, k) ],
                                first |-> Len(table) + 1,
                                firstExposed |-> Len(table) + 1,
                                end |-> ex.end ])
                /\ UNCHANGED << deviceVars, query, answer, plan, sequence, initNumZSlices,
                                cameraToIsReady, hasPrevAltitude, prevAltitude,
                                numZSlices, zIndex, stepIndex, error, run,
                                firstTable, zLog >>

NextExpose == Expose

SpecExpose == InitExpose /\ [][NextExpose]_vars

\* ------------------------------------------------ the devices: common parts
plannerVars == << plan, sequence, initNumZSlices, cameraToIsReady,
                  cameraToImageCount, table, curTime, hasPrevAltitude,
                  prevAltitude, numZSlices, zIndex, stepIndex, pc, error, run,
                  firstTable, zLog, exposeLog, query, answer >>

\* No experiment is planned while a device is looked at.
PlannerIdle ==
    /\ plan = [ cams |-> << >>, rig |-> CHOOSE r \in Rigs : r.lights = 1,
                numAngles |-> 0, numPhases |-> 1, zStart |-> 0, zHeight |-> 0,
                sliceHeight |-> 1, stage |-> CHOOSE x \in Stages : TRUE,
                numReps |-> 1 ]
    /\ sequence = << >>
    /\ initNumZSlices = 0
    /\ cameraToIsReady = << >>
    /\ cameraToImageCount = << >>
    /\ table = << >>
    /\ curTime = 0
    /\ hasPrevAltitude = FALSE
    /\ prevAltitude = 0
    /\ numZSlices = 0
    /\ zIndex = 0
    /\ stepIndex = 0
    /\ pc = "idle"
    /\ error = ""
    /\ run = 1
    /\ firstTable = << >>
    /\ zLog = << >>
    /\ exposeLog = << >>
    /\ query = NoQuery
    /\ answer = NoAnswer

\* ------------------------------------------------ MicroscopeStage.initialize
\* The one letter names of the cockpit axes, in the order initialize visits
\* them.
Letters == << "x", "y", "z" >>

\* The names a device gives its axes.
AxisNames == { "X", "Y", "Z" }

\* The values of a units-per-micron entry.
UnitsValues == { 10, 0, -4 }

\* The configuration of a stage: the letters with an axis-name entry and those
\* with a units-per-micron entry.
StageDeviceConfigs ==
    [ axisName : UNION { [ S -> AxisNames ] : S \in SUBSET { "x", "y", "z" } },
      units    : UNION { [ S -> UnitsValues ] : S \in SUBSET { "x", "y", "z" } } ]

\* The keys of self._proxy.axes.
TheirAxes == { {}, { "X" }, { "X", "Y" }, { "X", "Y", "Z" } }

\* The loop over 'xyz' from letter number n on: the axes appended and the
\* names handled so far, until the loop ends or raises.
RECURSIVE ConfigureAxes(_, _, _, _, _)
ConfigureAxes(cfg, their, n, axes, handled) ==
    IF n > Len(Letters)
    THEN [ ok |-> TRUE, error |-> "", axes |-> axes, handled |-> handled ]
    ELSE LET l == Letters[n]
         IN  IF l \notin DOMAIN cfg.axisName
             THEN ConfigureAxes(cfg, their, n + 1, axes, handled)
             ELSE IF cfg.axisName[l] \notin their
             THEN [ ok |-> FALSE, error |-> "unknown axis", axes |-> axes,
                    handled |-> handled ]
             ELSE IF l \notin DOMAIN cfg.units
             THEN [ ok |-> FALSE, error |-> "missing units-per-micron",
                    axes |-> axes, handled |-> handled ]
             ELSE IF cfg.units[l] <= 0
             THEN [ ok |-> FALSE, error |-> "units-per-micron not positive",
                    axes |-> axes, handled |-> handled ]
             ELSE ConfigureAxes(cfg, their, n + 1,
                                Append(axes, [ theirName |-> cfg.axisName[l],
                                               letter |-> l,
                                               unitsPerMicron |-> cfg.units[l] ]),
                                handled \cup { cfg.axisName[l] })

\* The checks of initialize: the loop over 'xyz', then the search for an axis
\* of the device that was not handled.
CheckAxes(cfg, their) ==
    LET r == ConfigureAxes(cfg, their, 1, << >>, {})
    IN  IF ~r.ok THEN r
        ELSE IF their \ r.handled # {}
        THEN [ r EXCEPT !.ok = FALSE, !.error = "no configuration for axis" ]
        ELSE r

\* Mutant: the stage is enabled before its configuration is checked.
StageInitializeEnablesFirst(cfg, their) ==
    LET r == CheckAxes(cfg, their)
    IN  [ ok |-> r.ok, error |-> r.error, axes |-> r.axes, enabled |-> TRUE ]

\* MicroscopeStage.initialize: self._proxy.enable() is its last statement.
StageInitialize(cfg, their) ==
    LET r == CheckAxes(cfg, their)
    IN  [ ok |-> r.ok, error |-> r.error, axes |-> r.axes, enabled |-> r.ok ]

\* A stage device is constructed; initialize has not run.
InitStage ==
    /\ PlannerIdle
    /\ stageDev \in [ used : { TRUE }, config : StageDeviceConfigs,
                      theirAxes : TheirAxes, axes : { << >> },
                      enabled : { FALSE }, pc : { "new" }, error : { "" } ]
    /\ baseDev = NoDevice
    /\ modDev = NoDevice
    /\ laserDev = NoDevice

InitializeStage ==
    /\ stageDev.used
    /\ stageDev.pc = "new"
    /\ LET r == StageInitialize(stageDev.config, stageDev.theirAxes)
       IN  stageDev' = [ stageDev EXCEPT
                           !.axes = r.axes,
                           !.enabled = r.enabled,
                           !.pc = IF r.ok THEN "initialized" ELSE "failed",
                           !.error = r.error ]
    /\ UNCHANGED << plannerVars, baseDev, modDev, laserDev >>

NextStage == InitializeStage

SpecStage == InitStage /\ [][NextStage]_vars

\* ----------------------------------------------------------- MicroscopeBase
\* The pseudo-enum of the defaults flag.
DEFAULTS_NONE == 0

DEFAULTS_PENDING == 1

DEFAULTS_SENT == 2

\* The number of calls of proxy.update_settings the model follows.
MaxSends == 3

\* The names of the devices a controller can expose.
ControllerDevices == { "a", "b", "c" }

\* The values of the configuration entry controller.name; << >> when omitted.
ControllerNames == { << >>, << "a" >>, << "b" >>, << "c" >>, << "d" >> }

\* The value userConfig holds for the device; not found, or a dict.
UserDefaults ==
    { [ found |-> FALSE ],
      [ found |-> TRUE, value |-> [ gain |-> 2 ] ] }

\* Mutant: without controller.name the first device of the controller is taken,
\* however many there are.
ConnectProxyFirstDevice(hasController, cname, devices) ==
    IF ~hasController
    THEN [ ok |-> TRUE, proxy |-> << "uri" >>, error |-> "" ]
    ELSE IF cname # << >>
    THEN IF cname[1] \in devices
         THEN [ ok |-> TRUE, proxy |-> cname, error |-> "" ]
         ELSE [ ok |-> FALSE, proxy |-> << >>, error |-> "device not found" ]
    ELSE IF devices = {}
    THEN [ ok |-> FALSE, proxy |-> << >>, error |-> "no devices found" ]
    ELSE [ ok |-> TRUE, proxy |-> << CHOOSE d \in devices : TRUE >>, error |-> "" ]

\* The proxy MicroscopeBase.initialize connects to: the device's own uri, or a
\* device of its controller.
ConnectProxy(hasController, cname, devices) ==
    IF ~hasController
    THEN [ ok |-> TRUE, proxy |-> << "uri" >>, error |-> "" ]
    ELSE IF cname # << >>
    THEN IF cname[1] \in devices
         THEN [ ok |-> TRUE, proxy |-> cname, error |-> "" ]
         ELSE [ ok |-> FALSE, proxy |-> << >>, error |-> "device not found" ]
    ELSE IF Cardinality(devices) = 0
    THEN [ ok |-> FALSE, proxy |-> << >>, error |-> "no devices found" ]
    ELSE IF Cardinality(devices) = 1
    THEN [ ok |-> TRUE, proxy |-> << CHOOSE d \in devices : TRUE >>, error |-> "" ]
    ELSE [ ok |-> FALSE, proxy |-> << >>, error |-> "more than one device" ]

\* self.settings.update(other) for dicts kept as records.
Updated(settings, other) ==
    [ k \in DOMAIN settings \cup DOMAIN other |->
        IF k \in DOMAIN other THEN other[k] ELSE settings[k] ]

\* Mutant: the flag is set to SENT whatever the outcome of the call.
FlagAfterSendAlwaysSent(flag, ok) == DEFAULTS_SENT

\* self.defaults after proxy.update_settings returned (ok) or raised.
FlagAfterSend(flag, ok) == IF ok THEN DEFAULTS_SENT ELSE flag

\* setAnyDefaults on the device d, when a call of update_settings would
\* succeed (ok) or raise.
SetAnyDefaults(d, ok) ==
    IF d.defaults # DEFAULTS_PENDING
    THEN d
    ELSE LET flag == FlagAfterSend(d.defaults, ok)
         IN  [ d EXCEPT
                 !.sends = Append(@, [ settings |-> d.settings, ok |-> ok,
                                       flag |-> d.defaults,
                                       by |-> "setAnyDefaults" ]),
                 !.remote = IF ~ok THEN @
                            ELSE IF @ = << >> THEN << d.settings >>
                            ELSE << Updated(@[1], d.settings) >>,
                 !.defaults = flag,
                 !.flagLog = IF flag # d.defaults THEN Append(@, flag) ELSE @ ]

\* _readUserConfig on the device d.
ReadUserConfig(d, ok) ==
    IF ~d.userDefaults.found
    THEN [ d EXCEPT !.defaults = DEFAULTS_NONE,
                    !.flagLog = IF d.defaults # DEFAULTS_NONE
                                THEN Append(@, DEFAULTS_NONE) ELSE @ ]
    ELSE SetAnyDefaults(
             [ d EXCEPT !.settings = Updated(@, d.userDefaults.value),
                        !.defaults = DEFAULTS_PENDING,
                        !.flagLog = IF d.defaults # DEFAULTS_PENDING
                                    THEN Append(@, DEFAULTS_PENDING) ELSE @ ],
             ok)

\* The settings a caller hands to updateSettings; << >> stands for None.
UpdateValues == { << >>, << [ gain |-> 5 ] >> }

\* updateSettings(settings) on the device d: the settings, when given, go to
\* the proxy whatever the defaults flag is; a call that raises (~ok) ends
\* updateSettings there; then self.settings takes over what the device
\* reports.
UpdateSettings(d, new, ok) ==
    IF new = << >>
    THEN IF d.remote = << >> THEN d
         ELSE [ d EXCEPT !.settings = Updated(@, d.remote[1]) ]
    ELSE LET sent == [ d EXCEPT
                         !.sends = Append(@, [ settings |-> new[1], ok |-> ok,
                                               flag |-> d.defaults,
                                               by |-> "updateSettings" ]) ]
         IN  IF ~ok THEN sent
             ELSE LET remote == IF d.remote = << >> THEN new[1]
                                ELSE Updated(d.remote[1], new[1])
                  IN  [ sent EXCEPT !.remote = << remote >>,
                                    !.settings = Updated(@, remote) ]

\* A device is constructed (MicroscopeBase.__init__).
InitBase ==
    /\ PlannerIdle
    /\ baseDev \in [ used : { TRUE },
                     hasController : BOOLEAN,
                     controllerName : ControllerNames,
                     devices : SUBSET ControllerDevices,
                     userDefaults : UserDefaults,
                     proxy : { << >> },
                     methodsSet : { FALSE },
                     settings : { [ k \in {} |-> 0 ] },
                     remote : { << >> },
                     defaults : { DEFAULTS_NONE },
                     flagLog : { << DEFAULTS_NONE >> },
                     sends : { << >> },
                     editor : { FALSE },
                     pc : { "new" },
                     error : { "" } ]
    /\ stageDev = NoDevice
    /\ modDev = NoDevice
    /\ laserDev = NoDevice

\* MicroscopeBase.initialize
InitializeBase ==
    /\ baseDev.used
    /\ baseDev.pc = "new"
    /\ LET r == ConnectProxy(baseDev.hasController, baseDev.controllerName,
                             baseDev.devices)
       IN  baseDev' = [ baseDev EXCEPT
                          !.proxy = r.proxy,
                          !.methodsSet = r.ok,
                          !.pc = IF r.ok THEN "initialized" ELSE "failed",
                          !.error = r.error ]
    /\ UNCHANGED << plannerVars, stageDev, modDev, laserDev >>

\* MicroscopeBase.finalizeInitialization, for a device without `settings`
\* entry in its configuration: it reads the user's defaults.
FinalizeInitialization ==
    /\ baseDev.used
    /\ baseDev.pc = "initialized"
    /\ \E ok \in BOOLEAN :
          baseDev' = [ ReadUserConfig(baseDev, ok) EXCEPT !.pc = "finalized" ]
    /\ UNCHANGED << plannerVars, stageDev, modDev, laserDev >>

\* MicroscopeBase.showSettings: the first call sends pending defaults and makes
\* the editor, every call raises it.
ShowSettings ==
    /\ baseDev.used
    /\ baseDev.pc = "finalized"
    /\ Len(baseDev.sends) < MaxSends
    /\ \E ok \in BOOLEAN :
          baseDev' = IF ~baseDev.editor
                     THEN [ SetAnyDefaults(baseDev, ok) EXCEPT !.editor = TRUE ]
                     ELSE baseDev
    /\ UNCHANGED << plannerVars, stageDev, modDev, laserDev >>

\* MicroscopeBase.setAnyDefaults, called on its own.
CallSetAnyDefaults ==
    /\ baseDev.used
    /\ baseDev.pc = "finalized"
    /\ Len(baseDev.sends) < MaxSends
    /\ \E ok \in BOOLEAN : baseDev' = SetAnyDefaults(baseDev, ok)
    /\ UNCHANGED << plannerVars, stageDev, modDev, laserDev >>

\* MicroscopeBase.updateSettings, called by a user of the device.
CallUpdateSettings ==
    /\ baseDev.used
    /\ baseDev.pc \in { "initialized", "finalized" }
    /\ Len(baseDev.sends) < MaxSends
    /\ \E new \in UpdateValues, ok \in BOOLEAN :
          baseDev' = UpdateSettings(baseDev, new, ok)
    /\ UNCHANGED << plannerVars, stageDev, modDev, laserDev >>

NextBase ==
    \/ InitializeBase
    \/ FinalizeInitialization
    \/ ShowSettings
    \/ CallSetAnyDefaults
    \/ CallUpdateSettings

SpecBase == InitBase /\ [][NextBase]_vars

\* ------------------------------------------------------ MicroscopeModulator
\* The clock (time.time(), in ms) is followed up to this value.
MaxClock == 6

\* The longest action list handed to executeActions.
MaxActions == 2

\* The timestamps (ms) and the analog values of the actions.
ActionTimes == { 0, 5 }

AnalogValues == { 1, 2 }

\* The action lists: (timestamp, analog value) pairs, timestamps not falling.
ActionLists ==
    { l \in UNION { [ 1..n -> [ t : ActionTimes, value : AnalogValues ] ] :
                      n \in 0..MaxActions } :
        \A n \in 1..(Len(l) - 1) : l[n].t <= l[n + 1].t }

\* The calls of the setAnalog callback that are followed.
MaxSetterCalls == 1

\* wait of executeActions, in ms: self.time + action[0] - time.time().
WaitFor(time, t, now) == time + t - now

\* The clock when time.sleep(wait), due to end at wakeAt, returns: a sleep
\* lasts at least wait; now is the clock as other threads have seen it pass
\* meanwhile.
AfterSleep(now, wakeAt) == IF now > wakeAt THEN now ELSE wakeAt

\* A write of the position attribute at the clock value at: by the iteration
\* of executeActions for the action of index action, which had read self.time
\* as time, or by the setAnalog callback (action 0); latest is self.time at
\* the write, << >> while it is no attribute.
PositionWrite(value, at, action, time, latest) ==
    [ value |-> value, at |-> at, action |-> action, time |-> time,
      latest |-> latest ]

\* A modulator whose examineActions has not run.
InitModulator ==
    /\ PlannerIdle
    /\ modDev \in [ used : { TRUE }, time : { << >> }, now : { 0 },
                    actions : ActionLists, idx : { 0 }, position : { 0 },
                    published : { 0 }, log : { << >> }, pc : { "idle" },
                    error : { "" }, read : { 0 }, wakeAt : { 0 },
                    setterCalls : { 0 }, examinedFirst : { FALSE },
                    ended : { << >> } ]
    /\ stageDev = NoDevice
    /\ baseDev = NoDevice
    /\ laserDev = NoDevice

\* Time passes.
ClockTick ==
    /\ modDev.used
    /\ modDev.pc \in { "idle", "executing", "sleeping", "setting" }
    /\ modDev.now + 3 <= MaxClock
    /\ modDev' = [ modDev EXCEPT !.now = @ + 3 ]
    /\ UNCHANGED << plannerVars, stageDev, baseDev, laserDev >>

\* MicroscopeModulator.examineActions, also while executeActions runs in
\* another thread.
ExamineActions ==
    /\ modDev.used
    /\ modDev.pc \in { "idle", "executing", "sleeping", "setting" }
    /\ modDev' = [ modDev EXCEPT !.time = << modDev.now >> ]
    /\ UNCHANGED << plannerVars, stageDev, baseDev, laserDev >>

\* The setAnalog callback of the handler: the position setter, called by a
\* user of the handler at any time.
SetAnalog ==
    /\ modDev.used
    /\ modDev.pc \in { "idle", "executing", "sleeping", "setting", "done" }
    /\ modDev.setterCalls < MaxSetterCalls
    /\ \E value \in AnalogValues :
          modDev' = [ modDev EXCEPT
                        !.position = value,
                        !.log = Append(@, PositionWrite(value, modDev.now, 0, 0,
                                                      modDev.time)),
                        !.setterCalls = @ + 1 ]
    /\ UNCHANGED << plannerVars, stageDev, baseDev, laserDev >>

\* executeActions is called; examinedFirst keeps whether examineActions had
\* run by then.
ExecuteActions ==
    /\ modDev.used
    /\ modDev.pc = "idle"
    /\ modDev' = [ modDev EXCEPT !.pc = "executing", !.idx = 1,
                                 !.examinedFirst = (modDev.time # << >>) ]
    /\ UNCHANGED << plannerVars, stageDev, baseDev, laserDev >>

\* The head of an iteration of executeActions: wait is computed from self.time
\* and the clock, and time.sleep(wait) is entered when it is positive;
\* self.time is no attribute of the device when examineActions has not run.
ComputeWait ==
    /\ modDev.used
    /\ modDev.pc = "executing"
    /\ modDev.idx <= Len(modDev.actions)
    /\ IF modDev.time = << >>
       THEN modDev' = [ modDev EXCEPT !.pc = "failed", !.error = "AttributeError" ]
       ELSE LET a    == modDev.actions[modDev.idx]
                wait == WaitFor(modDev.time[1], a.t, modDev.now)
            IN  modDev' = [ modDev EXCEPT
                              !.read = modDev.time[1],
                              !.wakeAt = IF wait > 0 THEN modDev.now + wait ELSE 0,
                              !.pc = IF wait > 0 THEN "sleeping" ELSE "setting" ]
    /\ UNCHANGED << plannerVars, stageDev, baseDev, laserDev >>

\* time.sleep(wait) returns; the time a sleep lasts longer than wait passes
\* by ClockTick before the position is written.
WakeUp ==
    /\ modDev.used
    /\ modDev.pc = "sleeping"
    /\ modDev' = [ modDev EXCEPT
                     !.now = AfterSleep(modDev.now, modDev.wakeAt),
                     !.wakeAt = 0,
                     !.pc = "setting" ]
    /\ UNCHANGED << plannerVars, stageDev, baseDev, laserDev >>

\* The tail of an iteration of executeActions: self.position = astate[0].
SetPosition ==
    /\ modDev.used
    /\ modDev.pc = "setting"
    /\ LET a == modDev.actions[modDev.idx]
       IN  modDev' = [ modDev EXCEPT
                         !.position = a.value,
                         !.log = Append(@, PositionWrite(a.value, modDev.now,
                                                         modDev.idx, modDev.read,
                                                         modDev.time)),
                         !.idx = @ + 1,
                         !.pc = "executing" ]
    /\ UNCHANGED << plannerVars, stageDev, baseDev, laserDev >>

\* The end of executeActions: events.publish(events.EXPERIMENT_EXECUTION);
\* ended keeps the position executeActions ends with.
PublishExecution ==
    /\ modDev.used
    /\ modDev.pc = "executing"
    /\ modDev.idx > Len(modDev.actions)
    /\ modDev' = [ modDev EXCEPT !.published = @ + 1, !.pc = "done",
                                 !.ended = << modDev.position >> ]
    /\ UNCHANGED << plannerVars, stageDev, baseDev, laserDev >>

NextModulator ==
    \/ ClockTick
    \/ ExamineActions
    \/ SetAnalog
    \/ ExecuteActions
    \/ ComputeWait
    \/ WakeUp
    \/ SetPosition
    \/ PublishExecution

SpecModulator == InitModulator /\ [][NextModulator]_vars

\* ------------------------------------------------ MicroscopeLaser._setPower
\* The number of calls of _setPower, each in a thread of its own.
MaxThreads == 2

\* The class attribute _power (0.2), in thousandths.
InitialPower == 200

\* The powers asked for, in thousandths.
Powers == { 100, 500, 900 }

Threads == 1..MaxThreads

\* A laser; no _setPower was called.
InitLaser ==
    /\ PlannerIdle
    /\ laserDev = [ used |-> TRUE, power |-> InitialPower, remote |-> InitialPower,
                    threads |-> [ t \in Threads |->
                                    [ pc |-> "idle", arg |-> 0, value |-> 0 ] ] ]
    /\ stageDev = NoDevice
    /\ baseDev = NoDevice
    /\ modDev = NoDevice

\* _setPower(power) is called: callInNewThread starts a thread for it.
CallSetPower(t) ==
    /\ laserDev.used
    /\ laserDev.threads[t].pc = "idle"
    /\ \E p \in Powers :
          laserDev' = [ laserDev EXCEPT !.threads[t].pc = "started",
                                        !.threads[t].arg = p ]
    /\ UNCHANGED << plannerVars, stageDev, baseDev, modDev >>

\* self._power = power
WriteCache(t) ==
    /\ laserDev.used
    /\ laserDev.threads[t].pc = "started"
    /\ laserDev' = [ laserDev EXCEPT !.power = laserDev.threads[t].arg,
                                     !.threads[t].pc = "cached" ]
    /\ UNCHANGED << plannerVars, stageDev, baseDev, modDev >>

\* The right side of `self._proxy.power = self._power` is evaluated.
ReadCache(t) ==
    /\ laserDev.used
    /\ laserDev.threads[t].pc = "cached"
    /\ laserDev' = [ laserDev EXCEPT !.threads[t].value = laserDev.power,
                                     !.threads[t].pc = "read" ]
    /\ UNCHANGED << plannerVars, stageDev, baseDev, modDev >>

\* The remote call that sets the power of the device is served.
WriteRemote(t) ==
    /\ laserDev.used
    /\ laserDev.threads[t].pc = "read"
    /\ laserDev' = [ laserDev EXCEPT !.remote = laserDev.threads[t].value,
                                     !.threads[t].pc = "done" ]
    /\ UNCHANGED << plannerVars, stageDev, baseDev, modDev >>

NextLaser ==
    \/ \E t \in Threads : CallSetPower(t)
    \/ \E t \in Threads : WriteCache(t)
    \/ \E t \in Threads : ReadCache(t)
    \/ \E t \in Threads : WriteRemote(t)

SpecLaser == InitLaser /\ [][NextLaser]_vars

\* ------------------------------------------------------------------ claims
\* The call returned its table.
Returned == pc = "done"

\* The positions after m of the next entry with the target of entry m.
Following(tbl, m) ==
    { n \in (m + 1)..Len(tbl) :
        /\ tbl[n].target = tbl[m].target
        /\ \A x \in (m + 1)..(n - 1) : tbl[x].target # tbl[m].target }

\* The last call was Step: the table ends with the entries of its expose.
JustExposed ==
    /\ exposeLog # << >>
    /\ pc \in {"step", "hold"}
    /\ stepIndex >= 1

LastExpose == exposeLog[Len(exposeLog)]

\* C1: No append of generateActions or expose is rejected as OutOfOrder, and
\* in the returned table the timestamps of the entries of each resource, read
\* in append order, never decrease.
C1_Monotonicity ==
    /\ error = ""
    /\ pc # "failed"
    /\ Returned =>
         \A m \in 1..Len(table) : \A n \in Following(table, m) :
             table[m].time <= table[n].time

\* A returned table of two cameras, one of them reset, three or more slices of
\* two or more steps, with lights and pattern clients.
C1_Witness ==
    /\ Returned
    /\ Len(plan.cams) = 2
    /\ CamsToReset # {}
    /\ Len(zLog) >= 3
    /\ Len(sequence) >= 2
    /\ plan.rig.lights > 0
    /\ plan.rig.slm.clients > 0
    /\ plan.zHeight % plan.sliceHeight # 0

\* C2: In the returned table, two consecutive entries of one camera are at
\* least that camera's exposure time plus its time between exposures apart.
C2_NoDoubleBooking ==
    Returned =>
        \A m \in 1..Len(table) :
            \A k \in Cameras :
                table[m].target = Camera(k) =>
                    \A n \in Following(table, m) :
                        table[n].time >=
                            table[m].time + plan.cams[k].exposure + plan.cams[k].gap

\* A returned table of two cameras of different speed, with two or more slices
\* of two or more steps, so that pairs inside a slice and across slices occur.
C2_Witness ==
    /\ Returned
    /\ Len(plan.cams) = 2
    /\ plan.cams[1].exposure > plan.cams[2].exposure
    /\ Len(zLog) >= 2
    /\ Len(sequence) >= 2
    /\ \E m \in 1..Len(table) :
          /\ table[m].target = Camera(2)
          /\ table[m].kind = "reset"
          /\ Following(table, m) # {}

\* C3: Every camera trigger that expose appends has a timestamp no smaller
\* than the earliest-available time of that camera over the entries the table
\* held before expose appended.
C3_NeverCommandedBusy ==
    JustExposed =>
        LET e      == LastExpose
            before == SubSeq(table, 1, e.firstExposed - 1)
        IN  \A n \in e.firstExposed..Len(table) :
                \A k \in Cameras :
                    table[n].target = Camera(k) =>
                        table[n].time >= getTimeWhenCameraCanExpose(before, k)

\* The first exposure after a reset, and a later exposure of a busy camera.
C3_Witness ==
    /\ JustExposed
    /\ Len(exposeLog) >= 3
    /\ LastExpose.zIndex >= 1
    /\ \E k \in Cameras :
          /\ table[1].target = Camera(k)
          /\ table[1].kind = "reset"
          /\ exposeLog[1].ready[k] > 0
          /\ LastExpose.ready[k] > exposeLog[1].ready[k]

\* C4: Read in append order, the timestamps of the table never decrease.
C4_GlobalOrder ==
    \A n \in 2..Len(table) : table[n - 1].time <= table[n].time

\* A returned table with reset entries, moves that take time, and a final hold
\* later than the return move.
C4_Witness ==
    /\ Returned
    /\ CamsToReset # {}
    /\ Len(zLog) >= 2
    /\ zLog[2].motionTime > 0
    /\ zLog[2].stabilizationTime > 0
    /\ Len(exposeLog) >= 2
    /\ table[Len(table)].time > table[Len(table) - 1].time

\* C5: For a plan with zHeight = 0 the returned table comes from exactly one
\* Z slice: one iteration of the Z loop, one expose per step of the sequence,
\* and that slice's two Z entries besides the return move and the final hold.
C5_OneSliceForZeroHeight ==
    (Returned /\ plan.zHeight = 0) =>
        /\ Len(zLog) = 1
        /\ Len(exposeLog) = Len(sequence)
        /\ Cardinality(EntriesOf(table, ZPositioner)) = 4

\* The least n with n * sliceHeight >= zHeight: ceil(zHeight / sliceHeight).
NominalSlices ==
    CHOOSE n \in 0..plan.zHeight :
        /\ n * plan.sliceHeight >= plan.zHeight
        /\ \A m \in 0..(n - 1) : m * plan.sliceHeight < plan.zHeight

\* C6: For zHeight above the threshold the Z loop runs ceil(zHeight /
\* sliceHeight) + 1 times, for a positive zHeight up to the threshold it runs
\* ceil(zHeight / sliceHeight) times, and the count generateActions uses is the
\* numZSlices of __init__.
C6_SliceCount ==
    /\ pc # "start" => numZSlices = initNumZSlices
    /\ (Returned /\ plan.zHeight > 0) =>
         /\ Len(zLog) = NominalSlices + (IF plan.zHeight > ZThreshold THEN 1 ELSE 0)
         /\ Len(zLog) = numZSlices

\* A returned table for a height that is no multiple of the slice height, with
\* its three slices visited.
C6_Witness ==
    /\ Returned
    /\ plan.zHeight = 3
    /\ plan.sliceHeight = 2
    /\ Len(zLog) = 3
    /\ zLog[3].target = plan.zStart + 4

\* A returned table for a height equal to the threshold: one slice, no extra.
C6_WitnessThreshold ==
    /\ Returned
    /\ plan.zHeight = ZThreshold
    /\ Len(zLog) = 1

\* The largest exposure time plus time between exposures of the cameras, 0
\* without cameras.
SlowestAcquisition ==
    CHOOSE m \in {0} \cup { plan.cams[k].exposure + plan.cams[k].gap : k \in Cameras } :
        \A k \in Cameras : plan.cams[k].exposure + plan.cams[k].gap <= m

\* Every camera was idle at the cursor of the expose call logged as e.
IdleAt(e) == \A k \in Cameras : e.ready[k] <= e.cursor

\* The last call was HoldSlice, after a slice with at least one step.
JustHeld ==
    /\ pc \in {"move", "return"}
    /\ zIndex >= 1
    /\ exposeLog # << >>
    /\ LastExpose.zIndex = zIndex - 1

\* C7: Within a slice, when every camera was idle at the cursor of step k, the
\* lights and cameras of step k+1 are triggered at exactly the trigger time of
\* step k plus the largest (exposure + gap) plus 5 ms; the hold that ends the
\* slice is at the last trigger time plus the largest (exposure + gap) plus 5.
C7_StepSpacing ==
    /\ (JustExposed /\ LastExpose.step >= 1) =>
         LET e == LastExpose
             p == exposeLog[Len(exposeLog) - 1]
         IN  (p.zIndex = e.zIndex /\ IdleAt(p)) =>
                 /\ \A n \in p.firstExposed..(e.first - 1) : table[n].time = p.cursor
                 /\ \A n \in e.firstExposed..Len(table) :
                        table[n].time = p.cursor + SlowestAcquisition + 5
    /\ (JustHeld /\ IdleAt(LastExpose)) =>
         table[Len(table)].time = LastExpose.cursor + SlowestAcquisition + 5

\* One ready camera with exposure 50 and gap 10, one light, a sequence of two
\* steps and one slice: triggers at 0 and 65, hold at 130.
C7_Witness ==
    /\ JustHeld
    /\ Len(plan.cams) = 1
    /\ plan.cams[1] = [exposure |-> 50, gap |-> 10, ready |-> TRUE]
    /\ plan.rig.lights = 1
    /\ Len(sequence) = 2
    /\ Len(exposeLog) = 2
    /\ table[exposeLog[1].firstExposed].time = 0
    /\ table[exposeLog[2].firstExposed].time = 65
    /\ table[exposeLog[2].firstExposed].target = Light(1)
    /\ table[exposeLog[2].firstExposed + 1].target = Camera(1)
    /\ table[exposeLog[2].firstExposed + 1].time = 65
    /\ table[Len(table)].time = 130
    /\ table[Len(table)].target = ZPositioner

\* No entry of tbl other than entry `except` lies strictly between lo and hi.
NothingBetween(tbl, except, lo, hi) ==
    \A n \in 1..Len(tbl) :
        n # except => (tbl[n].time <= lo \/ tbl[n].time >= hi)

\* C8 as stated: for every slice with index >= 1 the move entry is at the
\* cursor the iteration began with, and nothing else is scheduled between that
\* time and that cursor + moveTime + settleTime.
C8_MoveAtPreMoveCursor ==
    \A j \in 1..Len(zLog) :
        zLog[j].zIndex >= 1 =>
            /\ table[zLog[j].entry].time = zLog[j].cursor
            /\ NothingBetween(table, zLog[j].entry, zLog[j].cursor,
                              zLog[j].cursor + zLog[j].motionTime
                                + zLog[j].stabilizationTime)

\* C8 amended: for every slice with index >= 1 the move entry to the new Z
\* target is at the cursor the iteration began with plus the oracle's move time
\* for (previous target, new target), i.e. when the move ends, and no other
\* entry is scheduled after that cursor and before cursor + moveTime +
\* settleTime.
C8_MoveAfterMoveTime ==
    \A j \in 1..Len(zLog) :
        zLog[j].zIndex >= 1 =>
            LET z  == zLog[j]
                mt == getMovementTime(plan.stage, z.target - plan.sliceHeight, z.target)
            IN  /\ table[z.entry].target = ZPositioner
                /\ table[z.entry].value = plan.zStart + plan.sliceHeight * z.zIndex
                /\ table[z.entry].time = z.cursor + mt[1]
                /\ NothingBetween(table, z.entry, z.cursor, z.cursor + mt[1] + mt[2])

\* A returned table whose second slice was reached by a move that takes time
\* and is followed by a stabilization time and by steps.
C8_Witness ==
    /\ Returned
    /\ Len(zLog) >= 2
    /\ zLog[2].motionTime = 2
    /\ zLog[2].stabilizationTime = 1
    /\ Len(sequence) >= 1
    /\ table[zLog[2].entry].time = zLog[2].cursor + 2
    /\ table[zLog[2].entry + 1].time = zLog[2].cursor + 3

\* The settling time of the plan's stage: the configured one, else 10.
SettleTimeOfPlan ==
    IF "settlingtime" \in DOMAIN plan.stage.config
    THEN plan.stage.config.settlingtime
    ELSE DefaultSettlingTime

\* The table without its last entry.
AllButLast(tbl) == SubSeq(tbl, 1, Len(tbl) - 1)

\* C11: The last entry of the returned table is a hold of the Z positioner at
\* zStart; its timestamp is the larger of (cursor after the return move +
\* settle time) and the largest earliest-available time of the plan's cameras,
\* whatever numReps is, and so it is no earlier than the earliest-available
\* time of any camera.
C11_FinalHold ==
    Returned =>
        LET last  == table[Len(table)]
            back  == table[Len(table) - 1]
            ready == { getTimeWhenCameraCanExpose(AllButLast(table), k) : k \in Cameras }
        IN  /\ last.target = ZPositioner
            /\ last.kind = "move"
            /\ last.value = plan.zStart
            /\ back.target = ZPositioner
            /\ back.value = plan.zStart
            /\ back.time = curTime
            /\ \A r \in ready : last.time >= r
            /\ \/ last.time = curTime + SettleTimeOfPlan
               \/ last.time \in ready
            /\ last.time >= curTime + SettleTimeOfPlan

\* A returned table of a single repetition whose cameras were triggered, with
\* a positive settle time before the final hold.
C11_Witness ==
    /\ Returned
    /\ plan.numReps = 1
    /\ Len(plan.cams) = 2
    /\ Len(exposeLog) >= 2
    /\ SettleTimeOfPlan > 0
    /\ table[Len(table)].time = curTime + SettleTimeOfPlan
    /\ \E k \in Cameras : getTimeWhenCameraCanExpose(table, k) > 0

\* C12: When an oracle query fails anywhere in the loops, the whole call ends
\* in an error: it is stopped for good at that point and returns no table,
\* neither a complete nor a partial one.
C12_OracleFailureIsFatal ==
    error = "UnavailableTiming" =>
        /\ pc = "failed"
        /\ ~Returned
        /\ ~ENABLED NextFail

\* A query failed in the middle of the loops, after a step was exposed, with a
\* table that is partly built.
C12_Witness ==
    /\ error = "UnavailableTiming"
    /\ pc = "failed"
    /\ Len(exposeLog) >= 1
    /\ zIndex >= 1
    /\ Len(table) > 4

\* The settling time and the velocity are missing from the asked stage.
NoSettlingTime == "settlingtime" \notin DOMAIN query.stage.config

NoVelocity ==
    /\ "velocity" \notin DOMAIN query.stage.config
    /\ Len(query.stage.axisVelocity) = 0

Answered == query.asked /\ answer # NoAnswer

\* C13: when the stage configuration has no settling time or no
\* velocity (and the axis reports none), getMovementTime fails with an error
\* instead of returning a value.
C13_MissingParameterFails ==
    Answered /\ (NoSettlingTime \/ NoVelocity) => answer.state = "raised"

\* A stage with an empty configuration and no velocity on the axis answered a
\* move of 3000 with the values 1000 and 10 the code puts in.
C13_WitnessDefaults ==
    /\ Answered
    /\ NoSettlingTime
    /\ NoVelocity
    /\ query.start = 0
    /\ query.end = 3000
    /\ answer = [ state |-> "returned", value |-> << 3, 10 >> ]

\* The settling time getMovementTime answers for a stage.
SettlingTimeOf(stage) ==
    IF "settlingtime" \in DOMAIN stage.config
    THEN stage.config.settlingtime
    ELSE DefaultSettlingTime

\* C14: getMovementTime either returns a pair (moveTime >= 0, settleTime >= 0)
\* or fails; what it answers depends only on |end - start|, on the velocity and
\* on the settling time.
C14_NonNegativeOrFails ==
    Answered =>
        /\ answer.state \in { "returned", "raised" }
        /\ answer.state = "returned" =>
              /\ answer.value[1] >= 0
              /\ answer.value[2] >= 0
        /\ \A q \in Queries :
              /\ Abs(q.end - q.start) = Abs(query.end - query.start)
              /\ Velocity(q.stage) = Velocity(query.stage)
              /\ SettlingTimeOf(q.stage) = SettlingTimeOf(query.stage)
              /\ q.stage.malformed = query.stage.malformed
              => CallMovementTime(q.stage, q.start, q.end) = answer

\* The single call of expose has returned.
Exposed == pc = "exposed" /\ Len(exposeLog) = 1

\* C15: expose returns exactly max(lastReady, cursor + acquisitionDuration),
\* where acquisitionDuration is the largest exposure + gap of the cameras and
\* lastReady the largest earliest-available time of the cameras in the table
\* as it was before this call's triggers; for no camera at all it returns the
\* cursor.
C15_ExposeReturn ==
    Exposed =>
        LET e         == LastExpose
            lastReady == MaxOf({ e.ready[k] : k \in Cameras })
            acq       == MaxOf({ plan.cams[k].exposure + plan.cams[k].gap :
                                   k \in Cameras })
        IN  /\ curTime = e.end
            /\ e.end = Max(lastReady, e.cursor + acq)
            /\ \A k \in Cameras :
                  e.ready[k] =
                      getTimeWhenCameraCanExpose(SubSeq(table, 1, e.first - 1), k)
            /\ Cameras = {} => e.end = e.cursor

\* expose returned for two cameras of which one was still busy at the cursor
\* (lastReady > cursor).
C15_Witness ==
    /\ Exposed
    /\ Len(plan.cams) = 2
    /\ LastExpose.cursor = 20
    /\ \E k \in Cameras : LastExpose.ready[k] > LastExpose.cursor
    /\ LastExpose.end = 80

\* expose returned the cursor for an empty set of cameras.
C15_WitnessNoCamera ==
    /\ Exposed
    /\ Cameras = {}
    /\ LastExpose.cursor = 30
    /\ curTime = 30

\* C16: A call of expose that returns appends exactly one True entry per light
\* and one per camera, every one with the cursor it was given as timestamp
\* (also when a camera is still busy at the cursor), the lights before the
\* cameras, and leaves the entries the table had before as they were.  A call
\* that ends in a rejected append has appended, in that way, the entries that
\* come before the rejected one, and no more.
C16_ExposeAppends ==
    [][ pc = "expose" /\ pc' \in { "exposed", "failed" } =>
          LET old  == Len(table)
              new  == SubSeq(table', old + 1, Len(table'))
              nl   == plan.rig.lights
              nc   == Len(plan.cams)
          IN  /\ Len(table') >= old
              /\ SubSeq(table', 1, old) = table
              /\ pc' = "exposed" => Len(new) = nl + nc
              /\ pc' = "failed" =>
                    /\ Len(new) < nl + nc
                    /\ \/ \E k \in 1..nl :
                             OutOfOrder(table', Entry(curTime, Light(k), "digital", 1))
                       \/ \E k \in 1..nc :
                             OutOfOrder(table', Entry(curTime, Camera(k), "digital", 1))
              /\ \A n \in 1..Len(new) :
                    /\ new[n].time = curTime
                    /\ new[n].kind = "digital"
                    /\ new[n].value = 1
                    /\ n <= nl => \E k \in 1..nl : new[n].target = Light(k)
                    /\ n > nl => \E k \in 1..nc : new[n].target = Camera(k)
                    /\ \A m \in 1..Len(new) :
                          new[m].target = new[n].target => m = n
      ]_vars

\* expose returned after it triggered, at the cursor, two lights and two
\* cameras of which one was still busy, on a table that held two entries.
C16_Witness ==
    /\ Exposed
    /\ plan.rig.lights = 2
    /\ Len(plan.cams) = 2
    /\ LastExpose.first = 3
    /\ Len(table) = 6
    /\ \E k \in Cameras : LastExpose.ready[k] > LastExpose.cursor
    /\ \A n \in 3..6 : table[n].time = LastExpose.cursor

\* expose ended in a rejected append: camera 2 had a trigger at 20 when expose
\* was called with the cursor 0; the light and camera 1 were appended before
\* the rejection, and camera 1 is counted.
C16_WitnessRejected ==
    /\ pc = "failed"
    /\ error = "OutOfOrder"
    /\ Len(plan.cams) = 2
    /\ plan.rig.lights = 1
    /\ curTime = 0
    /\ Len(table) = 3
    /\ table[1] = Entry(20, Camera(2), "digital", 1)
    /\ table[2] = Entry(0, Light(1), "digital", 1)
    /\ table[3] = Entry(0, Camera(1), "digital", 1)
    /\ cameraToImageCount = << 1, 1 >>

\* C17: The move time added before the return move to zStart is the oracle's
\* motion time from the last Z altitude commanded in the Z loop,
\* zStart + sliceHeight * (numZSlices - 1), back to zStart.
C17_ReturnFromFinalAltitude ==
    Returned /\ zLog # << >> =>
        LET final == zLog[Len(zLog)].target
            hold  == table[Len(table) - 2]
            back  == table[Len(table) - 1]
        IN  /\ final = plan.zStart + plan.sliceHeight * (numZSlices - 1)
            /\ hold.target = ZPositioner
            /\ hold.value = final
            /\ back.value = plan.zStart
            /\ back.time - hold.time =
                   getMovementTime(plan.stage, final, plan.zStart)[1]

\* The positions of the Z positioner's entries in the table, in table order.
ZPos == InOrder(EntriesOf(table, ZPositioner))

\* The calls of expose made in slice k, as positions of the expose log.
StepsOf(k) == { n \in 1..Len(exposeLog) : exposeLog[n].zIndex = k }

\* C18: In a returned table the Z positioner has, for every visited slice k,
\* exactly two entries with target zStart + k * sliceHeight: one before the
\* first step of the slice and one after its last step, at the end of the last
\* exposure plus 5 ms; both are kept.  With N slices it has exactly 2N + 2
\* entries, the last two with target zStart.
C18_TwoZEntriesPerSlice ==
    Returned =>
        LET N == numZSlices
        IN  /\ Len(zLog) = N
            /\ Len(ZPos) = 2 * N + 2
            /\ \A k \in 0..(N - 1) :
                  LET move == ZPos[2 * k + 1]
                      hold == ZPos[2 * k + 2]
                      S    == StepsOf(k)
                  IN  /\ table[move].value = plan.zStart + k * plan.sliceHeight
                      /\ table[hold].value = plan.zStart + k * plan.sliceHeight
                      /\ move = zLog[k + 1].entry
                      /\ Cardinality(S) = Len(sequence)
                      /\ \A n \in S :
                            /\ move < exposeLog[n].first
                            /\ hold > exposeLog[n].firstExposed
                                        + plan.rig.lights + Len(plan.cams) - 1
                      /\ S # {} =>
                            table[hold].time = exposeLog[MaxOf(S)].end + 5
            /\ table[ZPos[2 * N + 1]].value = plan.zStart
            /\ table[ZPos[2 * N + 2]].value = plan.zStart
            /\ ZPos[2 * N + 2] = Len(table)

\* A returned table of three slices with at least two steps each: the Z
\* positioner has 8 entries, and the two of the second slice name the same
\* altitude.
C18_Witness ==
    /\ Returned
    /\ numZSlices = 3
    /\ Len(sequence) >= 2
    /\ Len(plan.cams) >= 1
    /\ Len(ZPos) = 8
    /\ table[ZPos[3]].value = table[ZPos[4]].value
    /\ table[ZPos[3]].time < table[ZPos[4]].time

\* The number of analog clients of a handler; an absent handler has none.
ClientsOf(handler) == IF handler.present THEN handler.clients ELSE 0

\* The analog clients of the two handlers.
AnalogClients ==
    { SlmClient(k) : k \in 1..ClientsOf(plan.rig.slm) }
    \cup { RotorClient(k) : k \in 1..ClientsOf(plan.rig.rotor) }

\* The entries of the table for one target, in table order.
EntrySeqOf(target) == SelectSeq(table, LAMBDA e : e.target = target)

\* C19: In a returned table every step i of every slice has exactly one entry
\* with payload i for each analog client of the slm and rotor handlers, slm
\* clients first, with the timestamp of the step's light and camera triggers
\* and appended before them; an absent handler or one without clients has no
\* entry; the payloads a client gets within a slice are 0 .. len(sequence) - 1
\* in this order.
C19_PatternEntries ==
    Returned =>
        LET ns == ClientsOf(plan.rig.slm)
            nr == ClientsOf(plan.rig.rotor)
        IN  /\ \A n \in 1..Len(exposeLog) :
                  LET e   == exposeLog[n]
                      pat == SubSeq(table, e.first, e.firstExposed - 1)
                  IN  /\ Len(pat) = ns + nr
                      /\ \A j \in 1..ns :
                            pat[j] = Entry(e.cursor, SlmClient(j), "analog", e.step)
                      /\ \A j \in 1..nr :
                            pat[ns + j] =
                                Entry(e.cursor, RotorClient(j), "analog", e.step)
                      /\ \A j \in 0..(plan.rig.lights + Len(plan.cams) - 1) :
                            /\ table[e.firstExposed + j].kind = "digital"
                            /\ table[e.firstExposed + j].time = e.cursor
            /\ \A c \in AnalogClients :
                  LET a == EntrySeqOf(c)
                  IN  /\ Len(a) = numZSlices * Len(sequence)
                      /\ \A m \in 1..Len(a) :
                            a[m].value = (m - 1) % Len(sequence)
            /\ \A n \in 1..Len(table) :
                  table[n].kind = "analog" => table[n].target \in AnalogClients

\* A returned table of two slices of four steps for a rig with one slm client
\* and two rotor clients: every client has the payloads 0, 1, 2, 3 twice.
C19_Witness ==
    /\ Returned
    /\ numZSlices = 2
    /\ Len(sequence) = 4
    /\ ClientsOf(plan.rig.slm) = 1
    /\ ClientsOf(plan.rig.rotor) = 2
    /\ Len(EntrySeqOf(RotorClient(2))) = 8
    /\ EntrySeqOf(SlmClient(1))[7].value = 2

\* A returned table of a rig without slm handler and with a rotor handler that
\* has no client: the steps are exposed and no analog entry is in the table.
C19_WitnessNoClients ==
    /\ Returned
    /\ ~plan.rig.slm.present
    /\ plan.rig.rotor.present
    /\ AnalogClients = {}
    /\ Len(exposeLog) >= 2
    /\ \A n \in 1..Len(table) : table[n].kind # "analog"

\* The cameras of the plan whose ready flag is false.
NotReady == { k \in Cameras : ~plan.cams[k].ready }

\* The reset phase of the call is over and no append was rejected.
PastReset == pc \in { "move", "step", "hold", "return", "done" }

\* C20: The table starts with the reset entries, at time 0 and before any
\* other entry, of exactly the cameras whose ready flag is false, and they are
\* its only reset entries; the cursor of the first slice is the time the reset
\* returned.  When every camera is ready there is no reset entry and the first
\* entry of the table has timestamp 0.
C20_ResetFirst ==
    PastReset =>
        LET nr    == Cardinality(NotReady)
            reset == IF NotReady = {} THEN 0
                     ELSE resetCams(0, NotReady, << >>).end
        IN  /\ Len(table) >= nr
            /\ \A n \in 1..Len(table) : table[n].kind = "reset" <=> n <= nr
            /\ \A n \in 1..nr : table[n].time = 0
            /\ { table[n].target : n \in 1..nr } = { Camera(k) : k \in NotReady }
            /\ zLog # << >> =>
                  /\ zLog[1].cursor = reset
                  /\ zLog[1].entry = nr + 1
                  /\ table[nr + 1].time = reset
            /\ NotReady # {} => reset > 0
            /\ NotReady = {} /\ table # << >> => table[1].time = 0

\* Of two cameras the second is not ready: the table starts with its reset at
\* time 0, and the first slice starts at the later time the reset returned.
C20_Witness ==
    /\ PastReset
    /\ Len(plan.cams) = 2
    /\ plan.cams[1].ready
    /\ ~plan.cams[2].ready
    /\ table[1] = Entry(0, Camera(2), "reset", 0)
    /\ zLog # << >>
    /\ table[2].target = ZPositioner
    /\ table[2].time > 0
    /\ Len(exposeLog) >= 1

\* Every camera is ready: the table has no reset entry and starts at time 0
\* with the move to the first slice.
C20_WitnessAllReady ==
    /\ PastReset
    /\ Len(plan.cams) = 2
    /\ NotReady = {}
    /\ table # << >>
    /\ table[1].target = ZPositioner
    /\ table[1].time = 0
    /\ Len(exposeLog) >= 1

\* C21: For the first slice (no previous altitude) the movement time is not
\* asked: the move to zStart is appended with a move time and a settle time of
\* 0 and the triggers of the first step carry its timestamp.  For each later
\* slice the movement time is asked once, for the move from the target of the
\* slice before to the new target.
C21_FirstSliceNoQuery ==
    \A n \in 1..Len(zLog) :
        LET z == zLog[n]
        IN  /\ z.zIndex = n - 1
            /\ table[z.entry].target = ZPositioner
            /\ n = 1 =>
                  /\ ~z.queried
                  /\ z.target = plan.zStart
                  /\ z.motionTime = 0
                  /\ z.stabilizationTime = 0
                  /\ table[z.entry].time = z.cursor
                  /\ table[z.entry].value = plan.zStart
                  /\ \A m \in 1..Len(exposeLog) :
                        exposeLog[m].zIndex = 0 /\ exposeLog[m].step = 0 =>
                            /\ exposeLog[m].cursor = table[z.entry].time
                            /\ \A j \in exposeLog[m].first..(z.entry + Len(PatternEntries(0, 0))
                                          + plan.rig.lights + Len(plan.cams)) :
                                  table[j].time = table[z.entry].time
            /\ n > 1 =>
                  /\ z.queried
                  /\ << z.motionTime, z.stabilizationTime >> =
                         getMovementTime(plan.stage, zLog[n - 1].target, z.target)
                  /\ table[z.entry].time = z.cursor + z.motionTime

\* The first slice at zStart = 1 was entered without a query and its first
\* step is exposed at the time of the move; the second slice was entered with
\* the movement time of the move from the first.
C21_Witness ==
    /\ Len(zLog) = 2
    /\ plan.zStart = 1
    /\ ~zLog[1].queried
    /\ zLog[2].queried
    /\ zLog[2].motionTime > 0
    /\ Len(plan.cams) >= 1
    /\ Len(exposeLog) >= 1
    /\ exposeLog[1].cursor = table[zLog[1].entry].time
    /\ pc = "step"

\* The number of triggers camera k has in the table.
TriggersOf(k) ==
    Cardinality({ n \in EntriesOf(table, Camera(k)) : table[n].kind = "digital" })

\* C22: When a call of generateActions has returned, the scheduled-image
\* counter of every camera has grown, in that call, by the number of triggers
\* the call appended for the camera, which is numZSlices * len(sequence) with
\* len(sequence) = numAngles * numPhases.
C22_ImageCount ==
    Returned =>
        /\ Len(sequence) = plan.numAngles * plan.numPhases
        /\ \A k \in Cameras :
              /\ TriggersOf(k) = numZSlices * Len(sequence)
              /\ cameraToImageCount[k] = run * TriggersOf(k)

\* The second call on the same experiment has returned: the counter of a
\* camera that got 8 triggers in each call stands at 16.
C22_Witness ==
    /\ Returned
    /\ run = 2
    /\ Len(plan.cams) = 2
    /\ numZSlices = 2
    /\ Len(sequence) = 4
    /\ TriggersOf(2) = 8
    /\ cameraToImageCount[2] = 16

\* The letters of the stage that have an axis-name entry.
ConfiguredLetters == DOMAIN stageDev.config.axisName

\* One of the four faults of a stage configuration is present.
StageConfigFault ==
    \/ \E l \in ConfiguredLetters :
          \/ stageDev.config.axisName[l] \notin stageDev.theirAxes
          \/ l \notin DOMAIN stageDev.config.units
          \/ l \in DOMAIN stageDev.config.units /\ stageDev.config.units[l] <= 0
    \/ \E a \in stageDev.theirAxes :
          \A l \in ConfiguredLetters : stageDev.config.axisName[l] # a

\* C23: MicroscopeStage.initialize fails when a configured axis names an axis
\* the device does not have, has no units-per-micron value or one that is
\* <= 0, or when the device has an axis without configuration; a failed
\* initialize never enables the stage, and after a successful one the stage is
\* enabled and has one axis handler per configured axis.
C23_StageValidation ==
    stageDev.used /\ stageDev.pc # "new" =>
        /\ StageConfigFault <=> stageDev.pc = "failed"
        /\ stageDev.pc = "failed" => ~stageDev.enabled /\ stageDev.error # ""
        /\ stageDev.pc = "initialized" =>
              /\ stageDev.enabled
              /\ Len(stageDev.axes) = Cardinality(ConfiguredLetters)
              /\ \A l \in ConfiguredLetters :
                    \E n \in 1..Len(stageDev.axes) :
                        /\ stageDev.axes[n].theirName = stageDev.config.axisName[l]
                        /\ stageDev.axes[n].letter = l
                        /\ stageDev.axes[n].unitsPerMicron = stageDev.config.units[l]

\* initialize failed on the y axis (units-per-micron of 0) after it accepted
\* the x axis: the stage is not enabled.
C23_Witness ==
    /\ stageDev.used
    /\ stageDev.pc = "failed"
    /\ stageDev.theirAxes = { "X", "Y" }
    /\ stageDev.config.axisName = [ l \in { "x", "y" } |-> IF l = "x" THEN "X" ELSE "Y" ]
    /\ stageDev.config.units = [ l \in { "x", "y" } |-> IF l = "x" THEN 10 ELSE 0 ]
    /\ Len(stageDev.axes) = 1
    /\ ~stageDev.enabled

\* initialize succeeded for a stage of two axes: two handlers, stage enabled.
C23_WitnessSuccess ==
    /\ stageDev.used
    /\ stageDev.pc = "initialized"
    /\ stageDev.theirAxes = { "X", "Y" }
    /\ Len(stageDev.axes) = 2
    /\ stageDev.enabled

\* initialize of the device has ended; it succeeded.
BaseInitialized == baseDev.used /\ baseDev.pc \in { "initialized", "finalized" }

\* C24: For a device with a controller, a controller.name that the controller
\* has selects that device and one it does not have makes initialize fail;
\* without controller.name initialize succeeds exactly when the controller has
\* one device, which is then used, and fails for none or several; after every
\* failure the methods forwarded to the proxy are unset.
C24_ControllerConnection ==
    baseDev.used /\ baseDev.pc # "new" =>
        LET cn   == baseDev.controllerName
            devs == baseDev.devices
        IN  /\ baseDev.hasController /\ cn # << >> /\ cn[1] \in devs =>
                  BaseInitialized /\ baseDev.proxy = cn
            /\ baseDev.hasController /\ cn # << >> /\ cn[1] \notin devs =>
                  baseDev.pc = "failed"
            /\ baseDev.hasController /\ cn = << >> =>
                  /\ BaseInitialized <=> Cardinality(devs) = 1
                  /\ BaseInitialized => devs = { baseDev.proxy[1] }
            /\ ~baseDev.hasController => BaseInitialized
            /\ baseDev.pc = "failed" =>
                  /\ ~baseDev.methodsSet
                  /\ baseDev.proxy = << >>
                  /\ baseDev.error # ""
            /\ BaseInitialized => baseDev.methodsSet

\* initialize failed for a controller with two devices and no controller.name:
\* the forwarded methods are unset.
C24_Witness ==
    /\ baseDev.used
    /\ baseDev.pc = "failed"
    /\ baseDev.hasController
    /\ baseDev.controllerName = << >>
    /\ baseDev.devices = { "a", "b" }
    /\ ~baseDev.methodsSet

\* initialize took the only device of the controller.
C24_WitnessSingle ==
    /\ baseDev.used
    /\ baseDev.pc = "initialized"
    /\ baseDev.hasController
    /\ baseDev.controllerName = << >>
    /\ baseDev.devices = { "b" }
    /\ baseDev.proxy = << "b" >>
    /\ baseDev.methodsSet

\* The calls of update_settings made by setAnyDefaults, in order.
DefaultSends == SelectSeq(baseDev.sends, LAMBDA x : x.by = "setAnyDefaults")

\* C25: The defaults flag starts as NONE and only moves NONE -> PENDING ->
\* SENT, leaving NONE only when user config was found.  setAnyDefaults calls
\* update_settings only while the flag is PENDING; the flag is SENT exactly
\* when such a call has succeeded, and that call was the last one
\* setAnyDefaults made; while all its calls have failed the flag is PENDING.
\* The call that made the flag SENT carried the settings stored at that time:
\* right after it the device holds the stored settings.  Calls of
\* update_settings by updateSettings leave the flag alone.
C25_DefaultsStateMachine ==
    baseDev.used =>
        LET log   == baseDev.flagLog
            sends == baseDev.sends
            own   == DefaultSends
        IN  /\ log[1] = DEFAULTS_NONE
            /\ log[Len(log)] = baseDev.defaults
            /\ \A n \in 1..(Len(log) - 1) : log[n + 1] = log[n] + 1
            /\ baseDev.defaults \in { DEFAULTS_NONE, DEFAULTS_PENDING, DEFAULTS_SENT }
            /\ baseDev.defaults # DEFAULTS_NONE => baseDev.userDefaults.found
            /\ \A n \in 1..Len(own) :
                  /\ own[n].flag = DEFAULTS_PENDING
                  /\ own[n].ok => n = Len(own)
            /\ baseDev.defaults = DEFAULTS_SENT <=>
                  own # << >> /\ own[Len(own)].ok
            /\ own # << >> /\ ~own[Len(own)].ok =>
                  baseDev.defaults = DEFAULTS_PENDING
            /\ \A n \in 1..Len(sends) :
                  /\ sends[n].flag = DEFAULTS_SENT =>
                        sends[n].by = "updateSettings"
                  /\ n = Len(sends) /\ sends[n].ok =>
                        /\ baseDev.remote # << >>
                        /\ \A k \in DOMAIN sends[n].settings :
                              /\ k \in DOMAIN baseDev.remote[1]
                              /\ baseDev.remote[1][k] = sends[n].settings[k]
                  /\ n = Len(sends) /\ sends[n].ok
                        /\ sends[n].by = "setAnyDefaults" =>
                        /\ sends[n].settings = baseDev.settings
                        /\ baseDev.remote = << baseDev.settings >>
            /\ (\A n \in 1..Len(sends) : ~sends[n].ok) => baseDev.remote = << >>

\* The defaults were sent at the second try, made by showSettings after the
\* try of finalizeInitialization had failed and updateSettings had changed
\* the stored settings; the flag stayed PENDING through updateSettings.
C25_Witness ==
    /\ baseDev.used
    /\ baseDev.pc = "finalized"
    /\ baseDev.editor
    /\ Len(baseDev.sends) = 3
    /\ ~baseDev.sends[1].ok
    /\ baseDev.sends[1].by = "setAnyDefaults"
    /\ baseDev.sends[2].ok
    /\ baseDev.sends[2].by = "updateSettings"
    /\ baseDev.sends[2].flag = DEFAULTS_PENDING
    /\ baseDev.sends[3].ok
    /\ baseDev.sends[3].by = "setAnyDefaults"
    /\ baseDev.defaults = DEFAULTS_SENT
    /\ baseDev.flagLog = << DEFAULTS_NONE, DEFAULTS_PENDING, DEFAULTS_SENT >>
    /\ baseDev.remote = << [ gain |-> 5 ] >>

\* updateSettings reached the device although no user config was found: the
\* flag is still NONE.
C25_WitnessNoDefaults ==
    /\ baseDev.used
    /\ baseDev.pc = "finalized"
    /\ ~baseDev.userDefaults.found
    /\ baseDev.defaults = DEFAULTS_NONE
    /\ baseDev.sends # << >>
    /\ baseDev.sends[1].ok
    /\ baseDev.settings = [ gain |-> 5 ]
    /\ baseDev.remote = << [ gain |-> 5 ] >>

\* The position writes made by executeActions, in order.
ReplayWrites == SelectSeq(modDev.log, LAMBDA w : w.action > 0)

\* C26: When examineActions has run before executeActions is called,
\* executeActions applies the actions in list order, sets the position for
\* none of them before the time examineActions recorded plus the action's
\* timestamp, publishes EXPERIMENT_EXECUTION once, after the last action is
\* applied, and ends with the position equal to the analog value of the last
\* action.
C26_ModulatorReplay ==
    modDev.used /\ modDev.examinedFirst =>
        LET acts == modDev.actions
            own  == ReplayWrites
        IN  /\ Len(own) <= Len(acts)
            /\ \A n \in 1..Len(own) :
                  /\ own[n].action = n
                  /\ own[n].value = acts[n].value
                  /\ own[n].latest # << >>
                  /\ own[n].at >= own[n].latest[1] + acts[n].t
                  /\ n > 1 => own[n - 1].at <= own[n].at
            /\ modDev.pc # "failed"
            /\ modDev.published = (IF modDev.pc = "done" THEN 1 ELSE 0)
            /\ modDev.pc = "done" =>
                  /\ Len(own) = Len(acts)
                  /\ acts # << >> => modDev.ended = << acts[Len(acts)].value >>

\* setAnalog wrote the position after the last action was applied and before
\* executeActions published: the replay ended with the value of setAnalog.
C26_WitnessSetAnalog ==
    /\ modDev.used
    /\ modDev.examinedFirst
    /\ modDev.pc = "done"
    /\ modDev.published = 1
    /\ Len(modDev.actions) = 1
    /\ Len(modDev.log) = 2
    /\ modDev.log[1].action = 1
    /\ modDev.log[2].action = 0
    /\ modDev.ended = << modDev.log[2].value >>
    /\ modDev.ended # << modDev.actions[1].value >>

\* Two actions, both due at 5 ms, were replayed; examineActions ran at 0 ms
\* and again at 3 ms, during the first sleep: the first action was applied at
\* 5 ms, as computed from 0 ms although self.time was 3 ms by then, the second
\* at 8 ms, as computed from 3 ms.
C26_WitnessReexamined ==
    /\ modDev.used
    /\ modDev.examinedFirst
    /\ modDev.pc = "done"
    /\ modDev.time = << 3 >>
    /\ Len(modDev.actions) = 2
    /\ Len(modDev.log) = 2
    /\ modDev.actions[1].t = 5
    /\ modDev.actions[2].t = 5
    /\ modDev.log[1].at = 5
    /\ modDev.log[1].time = 0
    /\ modDev.log[1].latest = << 3 >>
    /\ modDev.log[2].at = 8
    /\ modDev.log[2].time = 3
    /\ modDev.published = 1

\* A replay no other call interfered with: examineActions ran once, before
\* executeActions, setAnalog was not called, and both actions were applied
\* when due.
C26_WitnessUndisturbed ==
    /\ modDev.used
    /\ modDev.examinedFirst
    /\ modDev.pc = "done"
    /\ modDev.setterCalls = 0
    /\ Len(modDev.actions) = 2
    /\ Len(modDev.log) = 2
    /\ modDev.log[1].time = modDev.time[1]
    /\ modDev.log[2].time = modDev.time[1]
    /\ modDev.log[2].at = modDev.time[1] + modDev.actions[2].t
    /\ modDev.ended = << modDev.actions[2].value >>

\* executeActions failed on its first action, examineActions not having run.
C26_WitnessNotExamined ==
    /\ modDev.used
    /\ ~modDev.examinedFirst
    /\ modDev.pc = "failed"
    /\ modDev.time = << >>
    /\ modDev.actions # << >>
    /\ ReplayWrites = << >>
    /\ modDev.published = 0

\* C27: When every thread started by a call of _setPower has finished, the
\* cached _power of the laser is the power last written to the remote device.
C27_CacheMatchesDevice ==
    /\ laserDev.used
    /\ \A t \in Threads : laserDev.threads[t].pc \in { "idle", "done" }
    => laserDev.power = laserDev.remote

====
